---- MODULE Spec2Model ----
(***************************************************************************)
(* Model of src/demomimo.py: the beamforming response function            *)
(* mimo_array_response and the script code that derives its steering      *)
(* angle from the live location.                                          *)
(*                                                                         *)
(* Number representation.  Angles are whole degrees.  The engine is       *)
(* modelled at the angles whose sine is a multiple of 1/2, where the       *)
(* phase k*d*n*sin(angle) is a whole number of quarter turns and           *)
(* exp(1j*phase) is one of 1, i, -1, -i: complex values are then pairs     *)
(* <<re, im>> of integers over a common real denominator.  A float that    *)
(* is NaN is flagged; a sum that cancels to zero over non-zero phases is   *)
(* a rounding residue (the double is of order 1e-16, not 0.0), an empty    *)
(* sum is the exact 0.0.                                                   *)
(***************************************************************************)
EXTENDS Integers, Sequences, FiniteSets, TLC

\* ------------------------------------------------------------------ bounds
MaxNt == 3
MaxNr == 2
MaxSweep == 2
Span == 2

\* ------------------------------------------------- program constants
\* d = 0.5 (line 57), in halves of a wavelength
d_halves == 1
\* k = 2 * np.pi (line 58), in quarter turns
k_quarters == 4
\* bs_lat, bs_lon = 28.7041, 77.1025 (line 98), in 1e-4 degrees
bs_lat == 287041
bs_lon == 771025

\* The window kinds of the selectbox (lines 46-50) and one string outside them.
WindowKinds == {"Uniform", "Hamming", "Hanning", "Blackman"}
OtherKind == "Kaiser"

\* The angles of the model (degrees): those with sin in {-1, -1/2, 0, 1/2, 1}.
Angles == {-90, -30, 0, 30, 90}

\* ------------------------------------------------------- complex numbers
CMul(a, b) == <<a[1] * b[1] - a[2] * b[2], a[1] * b[2] + a[2] * b[1]>>
CAdd(a, b) == <<a[1] + b[1], a[2] + b[2]>>
Conj(a) == <<a[1], 0 - a[2]>>

\* 2 * np.sin(np.radians(ang))
Sin2(ang) ==
  CASE ang = -90 -> -2
    [] ang = -30 -> -1
    [] ang = 0 -> 0
    [] ang = 30 -> 1
    [] ang = 90 -> 2

\* k * d * n * sin(ang) in quarter turns (lines 79, 87)
PhaseQ(n, ang) == (k_quarters * d_halves * n * Sin2(ang)) \div 4

\* np.exp(1j * phase) for a phase of q quarter turns
ExpQ(q) ==
  CASE q % 4 = 0 -> <<1, 0>>
    [] q % 4 = 1 -> <<0, 1>>
    [] q % 4 = 2 -> <<-1, 0>>
    [] q % 4 = 3 -> <<0, -1>>

\* ------------------------------------------------ squared moduli, 3 limbs
\* re^2 + im^2 does not fit a machine integer: it is kept as <<hi, mid, lo>>
\* in base 2^15 (|re|, |im| < 2^30).
Base == 2 ^ 15
AbsInt(a) == IF a < 0 THEN 0 - a ELSE a

Sq3(x) ==
  LET a == AbsInt(x)
      a1 == a \div Base
      a0 == a % Base
      m == a1 * a0
      lo == a0 * a0
      t1 == (lo \div Base) + 2 * (m % Base)
      t2 == a1 * a1 + 2 * (m \div Base) + (t1 \div Base)
  IN <<t2, t1 % Base, lo % Base>>

Add3(p, q) ==
  LET lo == p[3] + q[3]
      mid == p[2] + q[2] + (lo \div Base)
  IN <<p[1] + q[1] + (mid \div Base), mid % Base, lo % Base>>

Less3(p, q) ==
  \/ p[1] < q[1]
  \/ p[1] = q[1] /\ p[2] < q[2]
  \/ p[1] = q[1] /\ p[2] = q[2] /\ p[3] < q[3]

Zero3 == <<0, 0, 0>>

\* ------------------------------------------------------ numpy's windows
\* 2 * cos(2*pi*n/m), exact for m in 1..4
Cos2(n, m) ==
  CASE m = 1 -> 2
    [] m = 2 -> IF n % 2 = 0 THEN 2 ELSE -2
    [] m = 3 -> IF n % 3 = 0 THEN 2 ELSE -1
    [] m = 4 -> IF n % 4 = 0 THEN 2 ELSE IF n % 4 = 2 THEN -2 ELSE 0

Length(N) == IF N < 0 THEN 0 ELSE N
Zeros(N) == [n \in 1..Length(N) |-> 0]

\* A raw window is [v, eps]: coefficient n is v[n] (np.ones: in units; the
\* cosine windows: in hundredths) plus eps[n] * 2^-56 of rounding residue.
\* np.ones(N) raises ValueError for N < 0: OnesRaises.
OnesRaises(N) == N < 0
np_ones(N) == [v |-> [n \in 1..Length(N) |-> 1], eps |-> Zeros(N)]

\* np.hamming(M): [] for M < 1, [1.] for M = 1, 0.54 - 0.46*cos(2*pi*n/(M-1))
np_hamming(M) ==
  IF M = 1 THEN np_ones(1)
  ELSE [v |-> [n \in 1..Length(M) |-> 54 - 23 * Cos2(n - 1, M - 1)],
        eps |-> Zeros(M)]

\* np.hanning(M): [] for M < 1, [1.] for M = 1, 0.5 - 0.5*cos(2*pi*n/(M-1))
np_hanning(M) ==
  IF M = 1 THEN np_ones(1)
  ELSE [v |-> [n \in 1..Length(M) |-> 50 - 25 * Cos2(n - 1, M - 1)],
        eps |-> Zeros(M)]

\* np.blackman(M): 0.42 - 0.5*cos(2*pi*n/(M-1)) + 0.08*cos(4*pi*n/(M-1)); at
\* both ends the double sum 0.42 - 0.5 + 0.08 is -1.3878e-17 = -2^-56, not 0.
np_blackman(M) ==
  IF M = 1 THEN np_ones(1)
  ELSE [v |-> [n \in 1..Length(M) |->
                 42 - 25 * Cos2(n - 1, M - 1) + 4 * Cos2(2 * (n - 1), M - 1)],
        eps |-> [n \in 1..Length(M) |-> IF n = 1 \/ n = M THEN -1 ELSE 0]]

\* lines 61-72: the window of one array
RawWindowElseHamming(window_type, N) ==
  IF window_type = "Hanning" THEN np_hanning(N)
  ELSE IF window_type = "Blackman" THEN np_blackman(N)
  ELSE np_hamming(N)
RawWindow(window_type, N) ==
  IF window_type = "Hamming" THEN np_hamming(N)
  ELSE IF window_type = "Hanning" THEN np_hanning(N)
  ELSE IF window_type = "Blackman" THEN np_blackman(N)
  ELSE np_ones(N)

\* lines 61-72 raise only through np.ones of a negative length
WindowRaises(window_type, Nt, Nr) ==
  /\ window_type \notin {"Hamming", "Hanning", "Blackman"}
  /\ OnesRaises(Nt) \/ OnesRaises(Nr)

RECURSIVE SumSq(_)
SumSq(v) == IF v = <<>> THEN 0 ELSE Head(v) * Head(v) + SumSq(Tail(v))

\* lines 75-76: win / np.linalg.norm(win).  The result is [nan, v, n2]:
\* element n is v[n] / sqrt(n2), or NaN when nan.  A zero norm divides 0.0
\* by 0.0 (NaN); an empty array stays empty; a residue next to a coefficient
\* of order 1 is below the tolerance and dropped.
Normalize(raw) ==
  IF Len(raw.v) = 0 THEN [nan |-> FALSE, v |-> <<>>, n2 |-> 0]
  ELSE IF SumSq(raw.v) > 0
    THEN [nan |-> FALSE, v |-> raw.v, n2 |-> SumSq(raw.v)]
  ELSE IF SumSq(raw.eps) > 0
    THEN [nan |-> FALSE, v |-> raw.eps, n2 |-> SumSq(raw.eps)]
  ELSE [nan |-> TRUE, v |-> raw.v, n2 |-> 0]

\* ------------------------------------------------------ steering vectors
\* lines 79-80, 87-88: win * np.exp(1j * k * d * np.arange(N) * np.sin(...)),
\* [nan, z]: the complex numerators over the window's denominator
SteeringVector(win, ang) ==
  [nan |-> win.nan,
   z |-> [n \in 1..Len(win.v) |-> CMul(<<win.v[n], 0>>, ExpQ(PhaseQ(n - 1, ang)))]]

\* lines 79-80: the steering vectors at theta_user
UserVectorMirrored(win, theta_user) == SteeringVector(win, 0 - theta_user)
UserVector(win, theta_user) == SteeringVector(win, theta_user)

\* lines 83, 89: np.outer(rx, tx.conj()), a Len(rx) x Len(tx) matrix
Outer(rx, tx) ==
  [nan |-> (rx.nan \/ tx.nan) /\ Len(rx.z) > 0 /\ Len(tx.z) > 0,
   m |-> [i \in 1..Len(rx.z) |-> [j \in 1..Len(tx.z) |-> CMul(rx.z[i], Conj(tx.z[j]))]]]

RECURSIVE CSum(_)
CSum(zs) == IF zs = <<>> THEN <<0, 0>> ELSE CAdd(Head(zs), CSum(Tail(zs)))

\* line 90: np.sum(H_steer * H.conj()), the numerator of the sum
SumProduct(H_steer, H) ==
  CSum([i \in 1..Len(H.m) |->
          CSum([j \in 1..Len(H.m[i]) |-> CMul(H_steer.m[i][j], Conj(H.m[i][j]))])])

IsEmpty(H) == Len(H.m) = 0 \/ Len(H.m[1]) = 0

\* line 90: gain = np.abs(np.sum(H_steer * H.conj())).  A gain is [t, m]:
\* "nan"; "zero" (the empty sum, exactly 0.0); "residue" (a sum that cancels:
\* the double keeps a rounding residue); "val" with m the squared modulus of
\* the numerator.
Gain(H_steer, H) ==
  LET s == SumProduct(H_steer, H)
      m == Add3(Sq3(s[1]), Sq3(s[2]))
  IN IF IsEmpty(H) THEN [t |-> "zero", m |-> Zero3]
     ELSE IF H_steer.nan \/ H.nan THEN [t |-> "nan", m |-> Zero3]
     ELSE IF m = Zero3 THEN [t |-> "residue", m |-> Zero3]
     ELSE [t |-> "val", m |-> m]

\* the order of two gains that are not NaN
GainLess(a, b) ==
  \/ a.t = "zero" /\ b.t \in {"residue", "val"}
  \/ a.t = "residue" /\ b.t = "val"
  \/ a.t = "val" /\ b.t = "val" /\ Less3(a.m, b.m)

Range(s) == {s[i] : i \in 1..Len(s)}

\* line 94: np.max(response) raises ValueError on an empty array
MaxNeverRaises(response) == FALSE
MaxRaises(response) == Len(response) = 0

\* line 94: np.max(response): NaN if any element is NaN
np_max(response) ==
  IF \E g \in Range(response) : g.t = "nan" THEN [t |-> "nan", m |-> Zero3]
  ELSE IF response = <<>> THEN [t |-> "zero", m |-> Zero3]
  ELSE CHOOSE g \in Range(response) : \A h \in Range(response) : ~GainLess(g, h)

\* line 94: 20 * np.log10(g / mx).  A level is [nan, num, den], the decibel
\* value of num / den; 0.0 / 0.0 is NaN.
Level(g, mx) ==
  [nan |-> g.t = "nan" \/ mx.t = "nan" \/ (g.t = "zero" /\ mx.t = "zero"),
   num |-> g, den |-> mx]

\* line 94: the returned array
Decibels(response) == [i \in 1..Len(response) |-> Level(response[i], np_max(response))]

IsZeroDb(x) == ~x.nan /\ ~GainLess(x.num, x.den) /\ ~GainLess(x.den, x.num)
AboveZeroDb(x) == ~x.nan /\ GainLess(x.den, x.num)
\* x > y for two levels of one returned array (IEEE: false if either is NaN)
LevelGreater(x, y) == ~x.nan /\ ~y.nan /\ GainLess(y.num, x.num)

\* ------------------------------------------------------------------ state
VARIABLES
  \* the running call of mimo_array_response: its parameters and locals
  args, win_tx, win_rx, H, response,
  \* "idle", "loop" (lines 85-91), "done" (returned), "raised" (an exception)
  pc,
  \* the array the call returned
  out,
  \* module level: the sidebar values Nt, Nr, window_type (lines 41-50)
  sliders,
  \* an earlier finished call, kept to compare a later one with
  earlier,
  \* module level: lines 25-27, 97, 121 and the script's position
  location, user_lat, user_lon, final_theta, map_data, spc

engineVars == <<args, win_tx, win_rx, H, response, pc, out>>
appVars == <<location, user_lat, user_lon, final_theta, map_data, spc>>
vars == <<args, win_tx, win_rx, H, response, pc, out, sliders, earlier,
          location, user_lat, user_lon, final_theta, map_data, spc>>

Sweeps == UNION {[1..n -> Angles] : n \in 0..MaxSweep}

ArgSpace ==
  [Nt : -1..MaxNt, Nr : -1..MaxNr, theta_user : Angles, theta : Sweeps,
   window_type : WindowKinds \cup {OtherKind}]

NoArgs == [Nt |-> 0, Nr |-> 0, theta_user |-> 0, theta |-> <<>>, window_type |-> "Uniform"]
NoWin == [nan |-> FALSE, v |-> <<>>, n2 |-> 0]
NoH == [nan |-> FALSE, m |-> <<>>]
NoCall == [args |-> NoArgs, pc |-> "idle", out |-> <<>>, between |-> FALSE]

\* Optional values: <<>> is None, <<x>> is x.
None == <<>>
Some(x) == <<x>>
NoLocation == [has |-> FALSE, latitude |-> None, longitude |-> None]

\* lines 41-50: the values the sidebar can give (the sliders start at 2 and 1)
SliderSpace == [Nt : 2..MaxNt, Nr : 1..MaxNr, window_type : WindowKinds]
\* lines 41-50: the sidebar's defaults
SliderDefaults == [Nt |-> 8, Nr |-> 4, window_type |-> "Hamming"]

EngineInit ==
  /\ args = NoArgs
  /\ win_tx = NoWin
  /\ win_rx = NoWin
  /\ H = NoH
  /\ response = <<>>
  /\ pc = "idle"
  /\ out = <<>>

AppInit ==
  /\ location = NoLocation
  /\ user_lat = None
  /\ user_lon = None
  /\ final_theta = 0
  /\ map_data = <<>>
  /\ spc = "start"

\* ----------------------------------------------------- mimo_array_response
\* line 53: the call binds the parameters, which shadow the module-level
\* names Nt, Nr and theta
BindModuleNt(a, s) == [a EXCEPT !.Nt = s.Nt]
Bind(a, s) == a

\* line 91: response.append(gain)
AppendFront(resp, gain) == <<gain>> \o resp
Collect(resp, gain) == Append(resp, gain)

\* lines 53-83: the windows, their normalization, the reference channel matrix
Enter(a) ==
  /\ pc = "idle"
  /\ args' = a
  /\ out' = <<>>
  /\ response' = <<>>
  /\ LET b == Bind(a, sliders)
         tx == Normalize(RawWindow(b.window_type, b.Nt))
         rx == Normalize(RawWindow(b.window_type, b.Nr))
     IN IF WindowRaises(b.window_type, b.Nt, b.Nr)
        THEN /\ pc' = "raised"
             /\ win_tx' = NoWin
             /\ win_rx' = NoWin
             /\ H' = NoH
        ELSE /\ pc' = "loop"
             /\ win_tx' = tx
             /\ win_rx' = rx
             /\ H' = Outer(UserVector(rx, b.theta_user), UserVector(tx, b.theta_user))
  /\ UNCHANGED sliders

\* lines 86-91: one pass of the loop over the sweep
LoopBody ==
  /\ pc = "loop"
  /\ Len(response) < Len(args.theta)
  /\ LET ang == args.theta[Len(response) + 1]
         tx_vec == SteeringVector(win_tx, ang)
         rx_vec == SteeringVector(win_rx, ang)
         H_steer == Outer(rx_vec, tx_vec)
     IN response' = Collect(response, Gain(H_steer, H))
  /\ UNCHANGED <<args, win_tx, win_rx, H, pc, out, sliders>>

\* lines 93-94: the normalization to the sweep's maximum, in decibels
Return ==
  /\ pc = "loop"
  /\ Len(response) = Len(args.theta)
  /\ IF MaxRaises(response)
     THEN pc' = "raised" /\ out' = <<>>
     ELSE pc' = "done" /\ out' = Decibels(response)
  /\ UNCHANGED <<args, win_tx, win_rx, H, response, sliders>>

\* the call is over: its frame is dropped and the caller goes on
Leave ==
  /\ pc \in {"done", "raised"}
  /\ args' = NoArgs
  /\ win_tx' = NoWin
  /\ win_rx' = NoWin
  /\ H' = NoH
  /\ response' = <<>>
  /\ pc' = "idle"
  /\ out' = <<>>
  /\ UNCHANGED sliders

Init ==
  /\ EngineInit
  /\ AppInit
  /\ sliders = SliderDefaults
  /\ earlier = NoCall

\* a call with any arguments of the bounded space
Call == pc = "idle" /\ \E a \in ArgSpace : Enter(a)

Next ==
  \/ Call /\ UNCHANGED <<earlier, appVars>>
  \/ LoopBody /\ UNCHANGED <<earlier, appVars>>
  \/ Return /\ UNCHANGED <<earlier, appVars>>
  \/ Leave /\ UNCHANGED <<earlier, appVars>>

Spec == Init /\ [][Next]_vars

\* ------------------------------------------------- the script, lines 23-126
\* The coordinates are in 1e-4 degrees.  The user's points lie on the eight
\* rays from the base station whose bearing is a whole number of degrees,
\* and on the equator and the prime meridian.
Offsets == {<<a, b>> \in (-Span..Span) \X (-Span..Span) : a = 0 \/ b = 0 \/ AbsInt(a) = AbsInt(b)}
Points ==
  {<<bs_lat + o[1], bs_lon + o[2]>> : o \in Offsets}
    \cup {<<0, bs_lon>>, <<0, bs_lon + bs_lat>>, <<0, bs_lon - bs_lat>>}
    \cup {<<bs_lat, 0>>, <<bs_lat - bs_lon, 0>>, <<bs_lat + bs_lon, 0>>}

\* what streamlit_geolocation() returns: None, or a dict whose latitude and
\* longitude are None until the browser has supplied them
Locations ==
  {NoLocation, [has |-> TRUE, latitude |-> None, longitude |-> None]}
    \cup {[has |-> TRUE, latitude |-> Some(p[1]), longitude |-> Some(p[2])] : p \in Points}
    \cup {[has |-> TRUE, latitude |-> Some(bs_lat + 1), longitude |-> None]}

\* Python's truth value of an optional number: None and 0 are false
Truthy(o) == o # None /\ o[1] # 0

\* line 29: location and location.get('latitude')
HasLatitude(loc) == loc.has /\ Truthy(loc.latitude)

\* lines 105-106: np.degrees(np.arctan2(y, x)) on the rays of whole degrees
Atan2Deg(y, x) ==
  CASE y = 0 /\ x >= 0 -> 0
    [] y = 0 /\ x < 0 -> 180
    [] x = 0 /\ y > 0 -> 90
    [] x = 0 /\ y < 0 -> -90
    [] y = x /\ x > 0 -> 45
    [] y = x /\ x < 0 -> -135
    [] y = 0 - x /\ x > 0 -> -45
    [] y = 0 - x /\ x < 0 -> 135

\* lines 103-106: theta_from_location before it is normalized
Bearing(lat, lon) == Atan2Deg(lon - bs_lon, lat - bs_lat)

\* lines 108-112: the angle folded into the front half plane
FoldAngleHigh(t) == IF t > 90 THEN 180 - t ELSE t
FoldAngle(t) ==
  IF t > 90 THEN 180 - t
  ELSE IF t < -90 THEN -180 - t
  ELSE t

\* line 25
Geolocate ==
  /\ spc = "start"
  /\ location' \in Locations
  /\ spc' = "read"
  /\ UNCHANGED <<user_lat, user_lon, final_theta, map_data, sliders>>

\* lines 26-35
ReadLocation ==
  /\ spc = "read"
  /\ IF HasLatitude(location)
     THEN user_lat' = location.latitude /\ user_lon' = location.longitude
     ELSE user_lat' = None /\ user_lon' = None
  /\ spc' = "sidebar"
  /\ UNCHANGED <<location, final_theta, map_data, sliders>>

\* lines 37-50
Sidebar ==
  /\ spc = "sidebar"
  /\ sliders' \in SliderSpace
  /\ spc' = "steer"
  /\ UNCHANGED <<location, user_lat, user_lon, final_theta, map_data>>

\* lines 96-117
Steer ==
  /\ spc = "steer"
  /\ IF user_lat # None /\ user_lon # None
     THEN final_theta' = FoldAngle(Bearing(user_lat[1], user_lon[1]))
     ELSE final_theta' = 0
  /\ spc' = "map"
  /\ UNCHANGED <<location, user_lat, user_lon, map_data, sliders>>

BaseStation == [lat |-> bs_lat, lon |-> bs_lon, type |-> "Base Station"]
LiveUser(lat, lon) == [lat |-> lat, lon |-> lon, type |-> "Live User"]

\* lines 119-126
BuildMap ==
  /\ spc = "map"
  /\ IF user_lat # None /\ user_lon # None
     THEN map_data' = <<BaseStation, LiveUser(user_lat[1], user_lon[1])>>
     ELSE map_data' = <<BaseStation>>
  /\ spc' = "done"
  /\ UNCHANGED <<location, user_lat, user_lon, final_theta, sliders>>

\* Streamlit runs the script again from the top on the next interaction; the
\* sidebar keeps its values until line 41 reads them again
Rerun ==
  /\ spc = "done"
  /\ location' = NoLocation
  /\ user_lat' = None
  /\ user_lon' = None
  /\ final_theta' = 0
  /\ map_data' = <<>>
  /\ spc' = "start"
  /\ UNCHANGED sliders

AppNext ==
  \/ Geolocate /\ UNCHANGED <<engineVars, earlier>>
  \/ ReadLocation /\ UNCHANGED <<engineVars, earlier>>
  \/ Sidebar /\ UNCHANGED <<engineVars, earlier>>
  \/ Steer /\ UNCHANGED <<engineVars, earlier>>
  \/ BuildMap /\ UNCHANGED <<engineVars, earlier>>
  \/ Rerun /\ UNCHANGED <<engineVars, earlier>>

SpecApp == Init /\ [][AppNext]_vars

\* ------------------------------------- repeated calls between script runs
\* the calls that are repeated and compared
ProbeArgs ==
  {a \in ArgSpace : /\ a.Nt \in 1..2
                    /\ a.Nr = 1
                    /\ a.window_type \in {"Uniform", "Hamming", "Hanning"}
                    /\ a.theta_user \in {0, 30}
                    /\ a.theta \in {<<30>>, <<0, 30>>}}

CallProbe == pc = "idle" /\ \E a \in ProbeArgs : Enter(a)

\* the finished call is kept for comparison
Remember ==
  /\ pc \in {"done", "raised"}
  /\ earlier' = [args |-> args, pc |-> pc, out |-> out, between |-> FALSE]
  /\ UNCHANGED <<engineVars, sliders, appVars>>

\* a call with other arguments has finished since the kept one
NoteBetween ==
  earlier' = IF earlier.pc # "idle" /\ earlier.args # args
             THEN [earlier EXCEPT !.between = TRUE]
             ELSE earlier

\* the user moves a sidebar control between two calls (lines 41-50)
MoveSlider ==
  /\ pc = "idle"
  /\ sliders' \in SliderSpace \ {sliders}
  /\ UNCHANGED <<engineVars, earlier, appVars>>

InitRepeat ==
  /\ EngineInit
  /\ AppInit
  /\ sliders \in SliderSpace
  /\ earlier = NoCall

NextRepeat ==
  \/ CallProbe /\ UNCHANGED <<earlier, appVars>>
  \/ LoopBody /\ UNCHANGED <<earlier, appVars>>
  \/ Return /\ UNCHANGED <<earlier, appVars>>
  \/ Remember
  \/ Leave /\ NoteBetween /\ UNCHANGED appVars
  \/ MoveSlider

SpecRepeat == InitRepeat /\ [][NextRepeat]_vars

\* ================================================================ claims
ValidGeometry(a) == a.Nt >= 1 /\ a.Nr >= 1
ValidArgs(a) == ValidGeometry(a) /\ a.window_type \in WindowKinds /\ Len(a.theta) >= 1

\* C1: for every valid input with a non-empty sweep the maximum of the
\* returned gain_dB sequence is 0 dB: some index holds 0 and none holds more.
C1_MaxIsZeroDb ==
  (pc = "done" /\ ValidArgs(args)) =>
    /\ \E i \in 1..Len(out) : IsZeroDb(out[i])
    /\ \A i \in 1..Len(out) : ~AboveZeroDb(out[i])

\* the squared norm of [nan, v, n2] is SumSq(v) / n2
UnitNorm(w) == ~w.nan /\ w.n2 > 0 /\ SumSq(w.v) = w.n2
UnitImpulse(w) ==
  ~w.nan /\ w.v[1] # 0 /\ \A n \in 2..Len(w.v) : w.v[n] = 0
RawNormZero(raw) == SumSq(raw.v) = 0 /\ SumSq(raw.eps) = 0
WindowAsSpecified(w, kind, N) ==
  /\ UnitNorm(w)
  /\ RawNormZero(RawWindow(kind, N)) => UnitImpulse(w)

\* C2: for every window kind and every length N >= 1 the window vector used
\* after the normalization step has Euclidean norm 1; when the raw
\* coefficients have norm 0 it is a unit impulse, and never NaN.
C2_WindowNormIsOne ==
  (pc \in {"loop", "done"} /\ ValidGeometry(args) /\ args.window_type \in WindowKinds) =>
    /\ WindowAsSpecified(win_tx, args.window_type, args.Nt)
    /\ WindowAsSpecified(win_rx, args.window_type, args.Nr)

\* C3: for every valid geometry and window kind, when the sweep contains the
\* steering angle, no other sweep index holds a strictly larger gain than the
\* index of the steering angle, which holds 0 dB unless it is NaN.
C3_PeakAtSteeringAngle ==
  (pc = "done" /\ ValidGeometry(args) /\ args.window_type \in WindowKinds) =>
    \A k \in 1..Len(out) :
      args.theta[k] = args.theta_user =>
        /\ \A j \in 1..Len(out) : ~LevelGreater(out[j], out[k])
        /\ ~out[k].nan => IsZeroDb(out[k])

C3_Witness ==
  /\ pc = "done" /\ ValidArgs(args) /\ args.Nt >= 2
  /\ \E k, j \in 1..Len(out) :
       /\ args.theta[k] = args.theta_user
       /\ args.theta[j] # args.theta_user
       /\ LevelGreater(out[k], out[j])

OnesWindow(w, N) ==
  ~w.nan /\ w.n2 = Length(N) /\ w.v = [n \in 1..Length(N) |-> 1]

C5_InvalidGeometryRaises ==
  pc = "done" => ValidGeometry(args)

\* C6: a call with a sweep of zero angles and otherwise valid arguments
\* signals an error and returns no result.
C6_EmptySweepRaises ==
  (pc # "idle" /\ ValidGeometry(args) /\ args.window_type \in WindowKinds
     /\ args.theta = <<>>) =>
    pc # "done" /\ out = <<>>

C6_Witness ==
  /\ pc = "raised" /\ ValidGeometry(args) /\ args.window_type \in WindowKinds
  /\ args.theta = <<>>

\* lines 60-90 for one sweep angle, from the call's arguments alone
GainAt(a, ang) ==
  LET tx == Normalize(RawWindow(a.window_type, a.Nt))
      rx == Normalize(RawWindow(a.window_type, a.Nr))
  IN Gain(Outer(SteeringVector(rx, ang), SteeringVector(tx, ang)),
          Outer(SteeringVector(rx, a.theta_user), SteeringVector(tx, a.theta_user)))

GainsOf(a) == [i \in 1..Len(a.theta) |-> GainAt(a, a.theta[i])]

\* C7: for every valid input with a non-empty sweep the returned sequence has
\* the length of the sweep and its value at index i is the gain computed for
\* the sweep's i-th angle, normalized to the maximum of the sweep.
C7_SameLengthAndOrder ==
  (pc = "done" /\ ValidArgs(args)) =>
    /\ Len(out) = Len(args.theta)
    /\ \A i \in 1..Len(out) : out[i] = Level(GainAt(args, args.theta[i]), np_max(GainsOf(args)))

C7_Witness ==
  /\ pc = "done" /\ ValidArgs(args) /\ Len(out) = MaxSweep
  /\ \E i, j \in 1..Len(out) : LevelGreater(out[i], out[j])

\* a finished call with the arguments of the kept call ended as it did
SameAsEarlier ==
  (pc \in {"done", "raised"} /\ earlier.pc # "idle" /\ earlier.args = args) =>
    earlier.pc = pc /\ earlier.out = out
\* a step of a call changes no module-level value and not its own arguments
CallStepKeepsModuleLevel ==
  (engineVars' # engineVars) =>
    /\ sliders' = sliders
    /\ appVars' = appVars
    /\ pc = "loop" => args' = args

\* C8: the result depends only on the arguments: a call with the arguments
\* of an earlier call ends as that call did, with the same output, whatever
\* calls and sidebar changes happened between them; and a step of a call
\* leaves the module-level values, and its own sweep argument, unchanged.
C8_SameArgumentsSameResult == [] SameAsEarlier /\ [][CallStepKeepsModuleLevel]_vars

C8_Witness ==
  /\ pc = "done" /\ earlier.pc = "done" /\ earlier.args = args
  /\ earlier.between /\ sliders.Nt # args.Nt
  /\ \E i, j \in 1..Len(out) : LevelGreater(out[i], out[j])

\* the three cases of the folding step, for a bearing t and its result f
FoldedAs(t, f) ==
  /\ f \in -90..90
  /\ (t >= -90 /\ t <= 90) => f = t
  /\ t > 90 => f = 180 - t
  /\ t < -90 => f = -180 - t

\* C9: the folding step takes every bearing of [-180, 180] into [-90, 90]:
\* unchanged within [-90, 90], 180 - theta above 90, -180 - theta below -90;
\* so the steering angle computed from a live location is within [-90, 90].
C9_FoldedIntoFrontHalfPlane ==
  (spc \in {"map", "done"} /\ user_lat # None /\ user_lon # None) =>
    /\ Bearing(user_lat[1], user_lon[1]) \in -180..180
    /\ FoldedAs(Bearing(user_lat[1], user_lon[1]), final_theta)
    /\ \A t \in -180..180 : FoldedAs(t, FoldAngle(t))

C9_WitnessLow ==
  /\ spc = "done" /\ user_lat # None /\ user_lon # None
  /\ Bearing(user_lat[1], user_lon[1]) < -90
  /\ final_theta = -45

LocationSupplied(loc) == loc.has /\ loc.latitude # None /\ loc.longitude # None

\* C10: the steering angle is the default 0 when no live location is
\* available; whenever the location has a latitude and a longitude (any
\* numbers, 0 included) the steering angle is the folded bearing to it and
\* the map data holds the user's point after the base station.
C10_LiveLocationSteers ==
  spc = "done" =>
    IF LocationSupplied(location)
    THEN /\ final_theta = FoldAngle(Bearing(location.latitude[1], location.longitude[1]))
         /\ map_data = <<BaseStation, LiveUser(location.latitude[1], location.longitude[1])>>
    ELSE /\ final_theta = 0
         /\ map_data = <<BaseStation>>

====
